---- MODULE Spec2Model ----
(***************************************************************************)
(* Ingest and persistence of interview events in the recruitment metrics   *)
(* dashboard: the sidebar upload flow of app.py (timestamp cut-off), the   *)
(* save_to_db of database.py (record_key filter, chunked insert), the       *)
(* upload history (file_uploads) and the memoized metric reads.            *)
(*                                                                         *)
(* The persistent store is a generic record store: a table is the sequence *)
(* of the rows inserted so far, an insert call appends its rows atomically *)
(* or raises, a select returns the rows or raises.                         *)
(***************************************************************************)
EXTENDS Integers, Sequences, FiniteSets, TLC

\* ------------------------------------------------------------------ bounds
\* Rows in one uploaded CSV file.
MaxBatch == 2
\* Rows the recruitment_data table may hold (uploads stop beyond it).
MaxRecords == 2
\* Upload records the file_uploads table may hold.
MaxUploads == 2
\* Times to live the clock may run for.
MaxClock == 2
\* Events in a dataset handed to the metric functions.
MaxEvents == 3
\* The greatest weeks_to_show a metric function is called with.
MaxWeeks == 2
\* Browser sessions that may run the upload flow at the same time.
NumSessions == 2
\* Rows per insert call of database.save_to_db.  The code uses 1000
\* (database.py:88); the model scales it so that a batch spans two chunks.
chunk_size == 1

VARIABLES
    recruitment_data, \* table recruitment_data: sequence of stored rows
    file_uploads,     \* table file_uploads: sequence of upload records
    records_counted,  \* sum of record_count over the upload records ever created
    session,          \* per browser session: the upload run in progress
    cache,            \* st.cache_data: the memoized metric results
    rendered,         \* what the latest dashboard render computed
    computed,         \* the latest call of a metric function and its result
    now,              \* wall clock, in seconds
    last              \* the operation that produced this state

vars == <<recruitment_data, file_uploads, records_counted, session, cache, rendered,
          computed, now, last>>

\* ------------------------------------------------------------- time, text
\* Seconds since 2024-01-01 00:00:00 of day d (0-based), h:m:s.
At(d, h, m, s) == ((d * 24 + h) * 60 + m) * 60 + s

\* A date as text is the format it is written in and the instant it spells.
Text(fmt, t) == [fmt |-> fmt, t |-> t]

\* pd.to_datetime(column) without a format (app.py:392, 397): any well formed
\* date text parses, a malformed one raises.
to_datetime_ok(text) == text.fmt # "malformed"
to_datetime(text) == text.t

\* pd.to_datetime(column, format='%m/%d/%y %H:%M') (database.py:60): only
\* text in exactly that format parses; anything else raises.
to_datetime_format_ok(text) == text.fmt = "%m/%d/%y %H:%M"

\* Timestamp.strftime: '%Y-%m-%d %H:%M' drops the seconds, '%Y-%m-%d
\* %H:%M:%S' keeps them.
strftime(ts, fmt) ==
    IF fmt = "%Y-%m-%d %H:%M" THEN Text(fmt, ts - (ts % 60)) ELSE Text(fmt, ts)

\* A Timestamp handed to the store client is written as ISO text.
isoformat(ts) == Text("%Y-%m-%dT%H:%M:%S", ts)

\* ------------------------------------------------------------ rows, batch
CsvColumns ==
    {"Candidate Name", "Interview Date TZ", "Interviewer", "Feedback Form",
     "Overall Score", "Candidate Origin", "Candidate Owner Name", "Posting Title"}

\* app.py:130-139: display name -> database name.
DisplayToDb ==
    [c \in CsvColumns |->
        CASE c = "Candidate Name" -> "candidate_name"
          [] c = "Interview Date TZ" -> "interview_date"
          [] c = "Interviewer" -> "interviewer"
          [] c = "Feedback Form" -> "feedback_form"
          [] c = "Overall Score" -> "overall_score"
          [] c = "Candidate Origin" -> "candidate_origin"
          [] c = "Candidate Owner Name" -> "candidate_owner_name"
          [] c = "Posting Title" -> "posting_title"]

DbColumns == {DisplayToDb[c] : c \in CsvColumns}

\* A loading map that hands two columns back under each other's names.
DbToDisplay_swapped ==
    [c \in DbColumns |->
        CASE c = "candidate_name" -> "Candidate Name"
          [] c = "interview_date" -> "Interview Date TZ"
          [] c = "interviewer" -> "Feedback Form"
          [] c = "feedback_form" -> "Interviewer"
          [] c = "overall_score" -> "Overall Score"
          [] c = "candidate_origin" -> "Candidate Origin"
          [] c = "candidate_owner_name" -> "Candidate Owner Name"
          [] c = "posting_title" -> "Posting Title"]

\* app.py:159-168: database name -> display name.
DbToDisplay ==
    [c \in DbColumns |->
        CASE c = "candidate_name" -> "Candidate Name"
          [] c = "interview_date" -> "Interview Date TZ"
          [] c = "interviewer" -> "Interviewer"
          [] c = "feedback_form" -> "Feedback Form"
          [] c = "overall_score" -> "Overall Score"
          [] c = "candidate_origin" -> "Candidate Origin"
          [] c = "candidate_owner_name" -> "Candidate Owner Name"
          [] c = "posting_title" -> "Posting Title"]

\* DataFrame.rename(columns=mapping) on one row.
rename(row, mapping) ==
    [c \in {mapping[k] : k \in DOMAIN row} |->
        row[CHOOSE k \in DOMAIN row : mapping[k] = c]]

\* One CSV row.  A missing value is the empty sequence, a present one a
\* one-element sequence.
CsvRow(name, date, interviewer, form, score, origin) ==
    [c \in CsvColumns |->
        CASE c = "Candidate Name" -> name
          [] c = "Interview Date TZ" -> date
          [] c = "Interviewer" -> interviewer
          [] c = "Feedback Form" -> form
          [] c = "Overall Score" -> score
          [] c = "Candidate Origin" -> origin
          [] c = "Candidate Owner Name" -> <<>>
          [] c = "Posting Title" -> <<>>]

\* The rows an uploaded file may hold: Alice's screen written to the minute
\* and written with seconds inside the same minute, Bob's later screen, and a
\* row whose date is no date.
RowAlice ==
    CsvRow("Alice", Text("%m/%d/%y %H:%M", At(7, 10, 0, 0)),
           "RecruiterA", "Recruiter Screen", <<4>>, "Applied")
RowAliceSec ==
    CsvRow("Alice", Text("%m/%d/%y %H:%M:%S", At(7, 10, 0, 30)),
           "RecruiterA", "Recruiter Screen", <<4>>, "Applied")
RowBob ==
    CsvRow("Bob", Text("%m/%d/%y %H:%M", At(31, 9, 0, 0)),
           "RecruiterB", "Recruiter Screen", <<2>>, "Sourced")
RowMalformed ==
    CsvRow("Carol", Text("malformed", 0),
           "RecruiterA", "Recruiter Screen", <<3>>, "Referred")

Rows == {RowAlice, RowAliceSec, RowBob, RowMalformed}

SeqsUpTo(S, n) == UNION {[1..k -> S] : k \in 0..n}
Batches == SeqsUpTo(Rows, MaxBatch)
Filenames == {"jan.csv", "feb.csv"}

Max(S) == CHOOSE x \in S : \A y \in S : y <= x

\* The events a dataset handed to the metric functions may hold, besides
\* Alice's and Bob's screens: Alice's onsite two days after her screen
\* (2024-01-10) and one an hour before it (2024-01-08 09:00), both with Sam
\* Nadler; Erin's screen in Alice's week, her origin matching no category;
\* Dana's screen on Monday 2024-12-30, the form in lower case, no score, her
\* origin matching two categories; Dana's onsite on 2025-01-02, in the same
\* Monday-to-Sunday week; Frank's event of 2024-01-11, whose form says
\* recruiter screen and whose interviewer is the onsite interviewer Sam Nadler.
RowAliceOnsite ==
    CsvRow("Alice", Text("%m/%d/%y %H:%M", At(9, 9, 0, 0)),
           "Sam Nadler", "Onsite", <<>>, "Applied")
RowAliceOnsiteEarly ==
    CsvRow("Alice", Text("%m/%d/%y %H:%M", At(7, 9, 0, 0)),
           "Sam Nadler", "Onsite", <<3>>, "Applied")
RowErin ==
    CsvRow("Erin", Text("%m/%d/%y %H:%M", At(8, 14, 0, 0)),
           "RecruiterA", "Recruiter Screen", <<3>>, "Agency")
RowDana ==
    CsvRow("Dana", Text("%m/%d/%y %H:%M", At(364, 10, 0, 0)),
           "RecruiterA", "recruiter screen", <<>>, "Applied via LinkedIn")
RowDanaOnsite ==
    CsvRow("Dana", Text("%m/%d/%y %H:%M", At(367, 9, 0, 0)),
           "Jordan Metzner", "Onsite", <<4>>, "Applied via LinkedIn")

RowFrank ==
    CsvRow("Frank", Text("%m/%d/%y %H:%M", At(10, 11, 0, 0)),
           "Sam Nadler", "Recruiter Screen", <<4>>, "Referred")

Events ==
    {RowAlice, RowBob, RowAliceOnsite, RowAliceOnsiteEarly, RowErin, RowDana,
     RowDanaOnsite, RowFrank}

\* The values of weeks_to_show.
WeeksToShow == 0..MaxWeeks

\* --------------------------------------------------------- store faults
\* Which store call of one operation raises: the select of recruitment_data,
\* the n-th insert into recruitment_data (0: none), the insert into or the
\* delete from file_uploads.  At most one call of an operation raises.
Fault(select, insert, file) == [select |-> select, insert |-> insert, file |-> file]
NoFault == Fault(FALSE, 0, FALSE)
Faults ==
    {NoFault, Fault(TRUE, 0, FALSE), Fault(FALSE, 0, TRUE)}
        \cup {Fault(FALSE, n, FALSE) : n \in 1..MaxBatch}

\* The batches of well formed rows: a malformed date ends an operation before
\* its first store call.
WellFormedBatches == SeqsUpTo({RowAlice, RowBob}, MaxBatch)

\* ------------------------------------------------------------------ state
\* What the state remembers of the operation that produced it: its inputs,
\* how it ended ("ok", "failed": app.py's success = False, "raised"), what it
\* returned, the sizes of the two tables before it, and whether it repeats
\* the operation before it (same operation, same batch, that one ended "ok").
Op(op, filename, batch, f, outcome, returned) ==
    [op |-> op, filename |-> filename, batch |-> batch, fault |-> f,
     outcome |-> outcome, returned |-> returned,
     repeat |-> last.op = op /\ last.batch = batch /\ last.outcome = "ok",
     count_before |-> Len(recruitment_data),
     uploads_before |-> Len(file_uploads)]

\* No render has computed metrics yet (or the table was empty).
NothingRendered == [latest_metrics |-> {}, prev_metrics |-> {}, computed_for |-> {}]

\* A call of a metric function: its name, its weeks_to_show, what it returned.
Computed(fn, weeks_to_show, value) ==
    [fn |-> fn, weeks_to_show |-> weeks_to_show, value |-> value]

\* No metric function has been called.
NothingComputed == Computed("none", 0, {})

Sessions == 1..NumSessions

\* A session between script runs, or one that has loaded the existing rows
\* and not yet saved: the rows it decided to save and the size of the table
\* it loaded.
Idle == [pc |-> "idle", filename |-> "", df_to_save |-> <<>>, loaded_count |-> 0]

Init ==
    /\ recruitment_data = <<>>
    /\ session = [s \in Sessions |-> Idle]
    /\ cache = {}
    /\ rendered = NothingRendered
    /\ computed = NothingComputed
    /\ file_uploads = <<>>
    /\ records_counted = 0
    /\ now = 0
    /\ last = [op |-> "init", filename |-> "", batch |-> <<>>, fault |-> NoFault,
               outcome |-> "ok", returned |-> 0, repeat |-> FALSE,
               count_before |-> 0, uploads_before |-> 0]

\* ------------------------------------------------------- app.py: ingest
\* app.py:389-392: read the CSV and convert its dates; the rows then carry
\* Timestamps.
read_csv(batch) ==
    [i \in 1..Len(batch) |->
        [batch[i] EXCEPT !["Interview Date TZ"] = to_datetime(@)]]

\* pd.to_datetime(errors='coerce'): nothing raises.
read_csv_coerces(batch) == FALSE

read_csv_raises(batch) ==
    \E i \in 1..Len(batch) : ~to_datetime_ok(batch[i]["Interview Date TZ"])

\* app.py:150-173 with the conversion of app.py:396-397: the stored rows under
\* their display names, dates as Timestamps; an empty frame when the select
\* raises.
load_from_db(f) ==
    IF f.select THEN <<>>
    ELSE [i \in 1..Len(recruitment_data) |->
            [rename(recruitment_data[i], DbToDisplay)
                EXCEPT !["Interview Date TZ"] = to_datetime(@)]]

\* The cut-off of app.py:411 with >= in place of >.
rows_to_save_not_strict(new_df, existing_df) ==
    IF existing_df = <<>> THEN new_df
    ELSE LET latest_date ==
                 Max({existing_df[i]["Interview Date TZ"] :
                          i \in 1..Len(existing_df)})
             newer(row) == row["Interview Date TZ"] >= latest_date
         IN  SelectSeq(new_df, newer)

\* app.py:399-411: what the flow decides to save: the whole file when no
\* existing row was loaded, else the rows strictly newer than the latest
\* existing date.
rows_to_save(new_df, existing_df) ==
    IF existing_df = <<>> THEN new_df
    ELSE LET latest_date ==
                 Max({existing_df[i]["Interview Date TZ"] :
                          i \in 1..Len(existing_df)})
             newer(row) == row["Interview Date TZ"] > latest_date
         IN  SelectSeq(new_df, newer)

\* app.py:130-139: the rows as records under the database names; the client
\* writes a Timestamp as ISO text.
to_records(df) ==
    [i \in 1..Len(df) |->
        [rename(df[i], DisplayToDb)
            EXCEPT !["interview_date"] = isoformat(@)]]

\* The insert of a store that enforces a unique natural key and skips the
\* conflicting rows.
save_to_db_on_conflict_skip(df, f) ==
    LET stored == {<<r["candidate_name"], r["interview_date"].t, r["feedback_form"]>> :
                       r \in {recruitment_data[i] : i \in 1..Len(recruitment_data)}}
        fresh(r) == <<r["candidate_name"], r["interview_date"].t, r["feedback_form"]>>
                        \notin stored
    IN  IF f.insert = 1
        THEN [success |-> FALSE, table |-> recruitment_data]
        ELSE [success |-> TRUE,
              table |-> recruitment_data \o SelectSeq(to_records(df), fresh)]

\* app.py:127-148: one insert call with all the records; success is False
\* when it raises, and then nothing was inserted.
save_to_db(df, f) ==
    IF f.insert = 1
    THEN [success |-> FALSE, table |-> recruitment_data]
    ELSE [success |-> TRUE, table |-> recruitment_data \o to_records(df)]

\* app.py:175-187: one row into file_uploads; a store error is swallowed.
save_file_record(filename, record_count, f) ==
    IF f.file THEN file_uploads
    ELSE Append(file_uploads,
                [filename |-> filename, upload_timestamp |-> now,
                 record_count |-> record_count])

\* app.py:197-203: delete the file_uploads rows of that filename; a store
\* error is swallowed.
remove_file_record(filename, f) ==
    IF f.file THEN file_uploads
    ELSE LET other(r) == r.filename # filename
         IN  SelectSeq(file_uploads, other)

\* app.py:387-425: the sidebar upload flow, one script run.
upload(filename, batch, f) ==
    /\ Len(recruitment_data) + Len(batch) <= MaxRecords
    /\ Len(file_uploads) < MaxUploads
    /\ IF read_csv_raises(batch)
       THEN /\ UNCHANGED <<recruitment_data, file_uploads>>
            /\ last' = Op("upload", filename, batch, f, "raised", 0)
       ELSE LET new_df == read_csv(batch)
                existing_df == load_from_db(f)
                df_to_save == rows_to_save(new_df, existing_df)
                calls_save == existing_df = <<>> \/ Len(df_to_save) > 0
                saved == save_to_db(df_to_save, f)
            IN  IF calls_save
                THEN /\ recruitment_data' = saved.table
                     /\ file_uploads' =
                            IF saved.success
                            THEN save_file_record(filename, Len(df_to_save), f)
                            ELSE file_uploads
                     /\ last' = Op("upload", filename, batch, f,
                                   IF saved.success THEN "ok" ELSE "failed",
                                   IF saved.success THEN Len(df_to_save) ELSE 0)
                ELSE /\ UNCHANGED <<recruitment_data, file_uploads>>
                     /\ last' = Op("upload", filename, batch, f, "ok", 0)
    /\ records_counted' =
           IF Len(file_uploads') > Len(file_uploads)
           THEN records_counted + file_uploads'[Len(file_uploads')].record_count
           ELSE records_counted
    /\ UNCHANGED <<session, cache, rendered, computed, now>>

\* Rows that sessions have decided to save and not yet inserted.
RECURSIVE Pending(_)
Pending(S) ==
    IF S = {} THEN 0
    ELSE LET s == CHOOSE x \in S : TRUE
         IN  (IF session[s].pc = "loaded" THEN Len(session[s].df_to_save) ELSE 0)
                 + Pending(S \ {s})

\* app.py:387-411 in one session: the script run up to its decision of what
\* to save, the other sessions' runs going on meanwhile.
upload_load(s, filename, batch) ==
    /\ session[s].pc # "loaded"
    /\ Len(recruitment_data) + Pending(Sessions) + Len(batch) <= MaxRecords
    /\ Len(file_uploads) < MaxUploads
    /\ ~read_csv_raises(batch)
    /\ LET new_df == read_csv(batch)
           existing_df == load_from_db(NoFault)
           df_to_save == rows_to_save(new_df, existing_df)
           calls_save == existing_df = <<>> \/ Len(df_to_save) > 0
       IN  session' = [session EXCEPT ![s] =
               [pc |-> IF calls_save THEN "loaded" ELSE "done",
                filename |-> filename,
                df_to_save |-> df_to_save,
                loaded_count |-> Len(existing_df)]]
    /\ UNCHANGED <<recruitment_data, file_uploads, records_counted, cache, rendered,
                   computed, now, last>>

\* app.py:402-405, 414-417 in one session: the insert and the upload record.
upload_save(s) ==
    /\ session[s].pc = "loaded"
    /\ LET df_to_save == session[s].df_to_save
           saved == save_to_db(df_to_save, NoFault)
       IN  /\ recruitment_data' = saved.table
           /\ file_uploads' =
                  save_file_record(session[s].filename, Len(df_to_save), NoFault)
           /\ records_counted' = records_counted + Len(df_to_save)
           /\ last' = Op("upload", session[s].filename, <<>>, NoFault, "ok",
                         Len(df_to_save))
    /\ session' = [session EXCEPT ![s].pc = "done"]
    /\ UNCHANGED <<cache, rendered, computed, now>>

\* The delete button taken for a rollback of the upload: the rows counted by
\* the deleted upload records are deleted too.
delete_button_rollback(filename, f) ==
    /\ \E i \in 1..Len(file_uploads) : file_uploads[i].filename = filename
    /\ file_uploads' = remove_file_record(filename, f)
    /\ recruitment_data' =
           LET hit == {i \in 1..Len(file_uploads) :
                           file_uploads[i].filename = filename}
               n == file_uploads[Max(hit)].record_count
           IN  SubSeq(recruitment_data, 1, Len(recruitment_data) - n)
    /\ last' = Op("remove_file_record", filename, <<>>, f, "ok", 0)
    /\ UNCHANGED <<records_counted, session, cache, rendered, computed, now>>

\* app.py:444-446: the delete button of the upload history.
delete_button(filename, f) ==
    /\ \E i \in 1..Len(file_uploads) : file_uploads[i].filename = filename
    /\ file_uploads' = remove_file_record(filename, f)
    /\ last' = Op("remove_file_record", filename, <<>>, f, "ok", 0)
    /\ UNCHANGED <<recruitment_data, records_counted, session, cache, rendered, computed,
                   now>>

\* -------------------------------------------------- database.py: ingest
\* database.py:60: the date column parsed with the fixed format.
parse_dates(df) ==
    [i \in 1..Len(df) |->
        [df[i] EXCEPT !["Interview Date TZ"] = to_datetime(@)]]

parse_dates_raises(df) ==
    \E i \in 1..Len(df) : ~to_datetime_format_ok(df[i]["Interview Date TZ"])

\* database.py:63-66: the key of an uploaded row; the date is printed to the
\* minute.
record_key(x) ==
    <<x["Candidate Name"],
      strftime(x["Interview Date TZ"], "%Y-%m-%d %H:%M"),
      x["Feedback Form"]>>

\* database.py:72-76: the key of a stored row; the date is the stored text.
existing_record_key(x) ==
    <<x["candidate_name"], x["interview_date"], x["feedback_form"]>>

existing_keys(existing) ==
    {existing_record_key(existing[i]) : i \in 1..Len(existing)}

\* database.py:68-79: the rows whose key is not among the existing keys.
filter_existing(df, existing) ==
    LET is_new(x) == record_key(x) \notin existing_keys(existing)
    IN  SelectSeq(df, is_new)

\* database.py:96-105: the record inserted for a row.
to_record(row) ==
    [c \in DbColumns |->
        CASE c = "candidate_name" -> row["Candidate Name"]
          [] c = "interview_date" ->
                 strftime(row["Interview Date TZ"], "%Y-%m-%d %H:%M:%S")
          [] c = "feedback_form" -> row["Feedback Form"]
          [] c = "interviewer" -> row["Interviewer"]
          [] c = "overall_score" -> row["Overall Score"]
          [] c = "candidate_origin" -> row["Candidate Origin"]
          [] c = "candidate_owner_name" -> row["Candidate Owner Name"]
          [] c = "posting_title" -> row["Posting Title"]]

\* database.py:87-111: the rows are inserted chunk by chunk, one insert call
\* per chunk; when the call of chunk number f.insert raises, the chunks before
\* it stay inserted.  Yields the rows that reach the table and whether the
\* loop raised.
insert_chunks(df, f) ==
    LET n_chunks == (Len(df) + chunk_size - 1) \div chunk_size
        raised == f.insert \in 1..n_chunks
        done == IF raised THEN (f.insert - 1) * chunk_size ELSE Len(df)
    IN  [raised |-> raised,
         inserted |-> [i \in 1..done |-> to_record(df[i])]]

\* database.py:51-118: save_to_db(df, supabase), one call.
database_save_to_db(batch, f) ==
    /\ Len(recruitment_data) + Len(batch) <= MaxRecords
    /\ IF parse_dates_raises(batch) \/ f.select
       THEN /\ UNCHANGED recruitment_data
            /\ last' = Op("database.save_to_db", "", batch, f, "raised", 0)
       ELSE LET df == filter_existing(parse_dates(batch), recruitment_data)
                done == insert_chunks(df, f)
            IN  /\ recruitment_data' = recruitment_data \o done.inserted
                /\ last' = Op("database.save_to_db", "", batch, f,
                              IF done.raised THEN "raised" ELSE "ok",
                              IF done.raised THEN 0 ELSE Len(df))
    /\ UNCHANGED <<file_uploads, records_counted, session, cache, rendered, computed, now>>

\* ------------------------------------------------- metrics.py: the reads
\* metrics.py:44: @st.cache_data(ttl=3600).
CACHE_TTL == 3600

\* The calendar of an instant.  Day 0 is Monday 2024-01-01.
is_leap(y) == (y % 4 = 0 /\ y % 100 # 0) \/ y % 400 = 0
days_in_year(y) == IF is_leap(y) THEN 366 ELSE 365
day_of(ts) == ts \div (24 * 60 * 60)

\* The year holding the day d days after January 1st of year y, and the
\* day's position in that year (0-based).
RECURSIVE year_of(_, _)
year_of(d, y) ==
    IF d < days_in_year(y) THEN y ELSE year_of(d - days_in_year(y), y + 1)
RECURSIVE day_of_year(_, _)
day_of_year(d, y) ==
    IF d < days_in_year(y) THEN d ELSE day_of_year(d - days_in_year(y), y + 1)

\* strftime('%Y'): the calendar year of the instant.
calendar_year(ts) == year_of(day_of(ts), 2024)

\* The Thursday of the instant's Monday-to-Sunday week: the ISO week and
\* the ISO year of a date are the week and the year of that Thursday.
iso_thursday(ts) == day_of(ts) - (day_of(ts) % 7) + 3
\* strftime('%V'): the ISO week number.
iso_week(ts) == day_of_year(iso_thursday(ts), 2024) \div 7 + 1
\* strftime('%G'), which the code does not use: the ISO year.
iso_year(ts) == year_of(iso_thursday(ts), 2024)

\* metrics.py:50, app.py:209: strftime('%Y-W%V') as <<year, week>>: the
\* calendar year with the ISO week number.  Both parts are zero padded in the
\* text, so the order of the texts is the order of the pairs.
week_key(ts) == <<calendar_year(ts), iso_week(ts)>>

\* metrics.py:54: Feedback Form contains 'Recruiter Screen', case ignored.
contains_recruiter_screen(form) ==
    form \in {"Recruiter Screen", "recruiter screen", "Senior Recruiter Screen"}

\* metrics.py:55: the onsite interviewers.
onsite_interviewers == {"Sam Nadler", "Jordan Metzner"}

\* The order of the week texts.
week_less(a, b) == a[1] < b[1] \/ (a[1] = b[1] /\ a[2] < b[2])

\* sorted(weeks): the distinct week keys in ascending order.
RECURSIVE sorted(_)
sorted(weeks) ==
    IF weeks = {} THEN <<>>
    ELSE LET least == CHOOSE w \in weeks : \A v \in weeks \ {w} : week_less(w, v)
         IN  <<least>> \o sorted(weeks \ {least})

\* list[-n:]: the last n elements; the whole list when n = 0 (-0 is 0) or
\* when the list has fewer than n.
last_n(list, n) ==
    IF n = 0 \/ n >= Len(list) THEN list
    ELSE SubSeq(list, Len(list) - n + 1, Len(list))

\* sorted(weeks)[-n:] (metrics.py:63, 401, 504; app.py:216, 238, 339).
latest_weeks(weeks, n) == last_n(sorted(weeks), n)

Range(list) == {list[i] : i \in 1..Len(list)}

\* Series.round(1) of a / b * 100, in tenths (halves go to the even tenth).
round1(a, b) ==
    LET q == (a * 1000) \div b
        r == (a * 1000) % b
    IN  IF 2 * r > b THEN q + 1
        ELSE IF 2 * r < b THEN q
        ELSE IF q % 2 = 0 THEN q ELSE q + 1

\* metrics.py:45-88: get_recruiter_screen_metrics(df, weeks_to_show), the
\* rows of the resulting table.
get_recruiter_screen_metrics(df, weeks_to_show) ==
    LET rows == {df[i] : i \in 1..Len(df)}
        idx == {i \in 1..Len(df) :
                    /\ contains_recruiter_screen(df[i]["Feedback Form"])
                    /\ df[i]["Interviewer"] \notin onsite_interviewers}
        weeks == Range(latest_weeks(
                     {week_key(df[i]["Interview Date TZ"]) : i \in idx},
                     weeks_to_show))
        group(w, r) == {i \in idx : /\ week_key(df[i]["Interview Date TZ"]) = w
                                    /\ df[i]["Interviewer"] = r}
        passes(g) == Cardinality({i \in g : /\ df[i]["Overall Score"] # <<>>
                                            /\ df[i]["Overall Score"][1] >= 3})
    IN  {[Week |-> w, Recruiter |-> r,
          TotalScreens |-> Cardinality(group(w, r)),
          Passes |-> passes(group(w, r)),
          PassRate |-> round1(passes(group(w, r)), Cardinality(group(w, r)))] :
             <<w, r>> \in {<<week_key(df[i]["Interview Date TZ"]), df[i]["Interviewer"]>> :
                              i \in {j \in idx : week_key(df[j]["Interview Date TZ"]) \in weeks}}}

\* ------------------------------------------ the metric functions, both files
Indices(df) == 1..Len(df)

\* df['Week'] of row i.
Week(df, i) == week_key(df[i]["Interview Date TZ"])

\* Feedback Form contains 'Recruiter Screen'; Interviewer is Sam or Jordan.
is_screen(row) == contains_recruiter_screen(row["Feedback Form"])
is_onsite(row) == row["Interviewer"] \in onsite_interviewers

\* The pass threshold of get_quality_metrics, 4.
is_pass_at_least_4(row) == row["Overall Score"] # <<>> /\ row["Overall Score"][1] >= 4

\* pd.to_numeric(score, errors='coerce') >= 3: a missing score is no pass.
is_pass(row) == row["Overall Score"] # <<>> /\ row["Overall Score"][1] >= 3

\* The weeks of all the rows of the dataset.
all_weeks(df) == {Week(df, i) : i \in Indices(df)}

\* Total Screens as the number of distinct candidates of the group.
app_get_recruiter_screen_metrics_nunique(df, weeks_to_show) ==
    LET idx == {i \in Indices(df) : is_screen(df[i]) /\ ~is_onsite(df[i])}
        weeks == Range(latest_weeks({Week(df, i) : i \in idx}, weeks_to_show))
        kept == {i \in idx : Week(df, i) \in weeks}
        group(w, r) == {i \in kept : Week(df, i) = w /\ df[i]["Interviewer"] = r}
        names(g) == {df[i]["Candidate Name"] : i \in g}
        passes(g) == Cardinality({i \in g : is_pass(df[i])})
    IN  {[Week |-> k[1], Recruiter |-> k[2],
          TotalScreens |-> Cardinality(names(group(k[1], k[2]))),
          Passes |-> passes(group(k[1], k[2])),
          PassRate |-> round1(passes(group(k[1], k[2])),
                              Cardinality(names(group(k[1], k[2]))))] :
             k \in {<<Week(df, i), df[i]["Interviewer"]>> : i \in kept}}

\* app.py:206-228: get_recruiter_screen_metrics as app.py defines and calls
\* it: the window is taken over the recruiter screens.
app_get_recruiter_screen_metrics(df, weeks_to_show) ==
    LET recruiter_screens ==
            {i \in Indices(df) : is_screen(df[i]) /\ ~is_onsite(df[i])}
        weeks == Range(latest_weeks({Week(df, i) : i \in recruiter_screens},
                                    weeks_to_show))
        kept == {i \in recruiter_screens : Week(df, i) \in weeks}
        group(w, r) == {i \in kept : Week(df, i) = w /\ df[i]["Interviewer"] = r}
    IN  {[Week |-> k[1], Recruiter |-> k[2],
          TotalScreens |-> Cardinality(group(k[1], k[2])),
          Passes |-> Cardinality({i \in group(k[1], k[2]) : is_pass(df[i])}),
          PassRate |-> round1(Cardinality({i \in group(k[1], k[2]) : is_pass(df[i])}),
                              Cardinality(group(k[1], k[2])))] :
             k \in {<<Week(df, i), df[i]["Interviewer"]>> : i \in kept}}

\* metrics.py:102: drop_duplicates(subset=[name, date, interviewer]): the
\* first row of each (name, date, interviewer).
drop_duplicates(df, idx) ==
    {i \in idx : \A j \in idx :
        (/\ df[j]["Candidate Name"] = df[i]["Candidate Name"]
         /\ df[j]["Interview Date TZ"] = df[i]["Interview Date TZ"]
         /\ df[j]["Interviewer"] = df[i]["Interviewer"]) => i <= j}

\* metrics.py:91-118: get_onsite_interview_metrics: per (week, interviewer)
\* the number of distinct candidate names (nunique).  The sort key, the
\* Monday of the week parsed back from the text, orders as the texts do.
get_onsite_interview_metrics(df, weeks_to_show) ==
    LET onsite_interviews ==
            drop_duplicates(df, {i \in Indices(df) : is_onsite(df[i])})
        weeks == Range(latest_weeks(all_weeks(df), weeks_to_show))
        kept == {i \in onsite_interviews : Week(df, i) \in weeks}
        group(w, r) == {i \in kept : Week(df, i) = w /\ df[i]["Interviewer"] = r}
    IN  {[Week |-> k[1], Interviewer |-> k[2],
          TotalOnsites |->
              Cardinality({df[i]["Candidate Name"] : i \in group(k[1], k[2])})] :
             k \in {<<Week(df, i), df[i]["Interviewer"]>> : i \in kept}}

\* app.py:323-350: get_onsite_interview_metrics as app.py defines and calls
\* it: recruiter screens left out, and per group the number of rows (count).
app_get_onsite_interview_metrics(df, weeks_to_show) ==
    LET onsite_interviews ==
            {i \in Indices(df) : is_onsite(df[i]) /\ ~is_screen(df[i])}
        weeks == Range(latest_weeks(all_weeks(df), weeks_to_show))
        kept == {i \in onsite_interviews : Week(df, i) \in weeks}
        group(w, r) == {i \in kept : Week(df, i) = w /\ df[i]["Interviewer"] = r}
    IN  {[Week |-> k[1], Interviewer |-> k[2],
          TotalOnsites |-> Cardinality(group(k[1], k[2]))] :
             k \in {<<Week(df, i), df[i]["Interviewer"]>> : i \in kept}}

\* The recruiters: the interviewers of the recruiter screens, Sam and Jordan
\* left out (metrics.py:507-510, app.py:242-243).
recruiters(df) ==
    {df[i]["Interviewer"] :
        i \in {j \in Indices(df) : is_screen(df[j]) /\ ~is_onsite(df[j])}}

\* The candidates a recruiter ever screened (metrics.py:519-522, app.py:251).
recruiter_candidates(df, recruiter) ==
    {df[i]["Candidate Name"] :
        i \in {j \in Indices(df) :
                  df[j]["Interviewer"] = recruiter /\ is_screen(df[j])}}

\* The onsite rows of a week whose candidate the recruiter ever screened, and
\* the recruiter's screens of the week.
week_onsites(df, week, recruiter) ==
    {i \in Indices(df) : /\ Week(df, i) = week
                         /\ is_onsite(df[i])
                         /\ df[i]["Candidate Name"] \in recruiter_candidates(df, recruiter)}
week_screens(df, week, recruiter) ==
    {i \in Indices(df) : /\ Week(df, i) = week
                         /\ df[i]["Interviewer"] = recruiter
                         /\ is_screen(df[i])}

\* round(onsites / screens * 100 if screens > 0 else 0, 1), in tenths.
conversion(onsites, screens) == IF screens > 0 THEN round1(onsites, screens) ELSE 0

\* metrics.py:496-552: get_onsite_conversion_metrics, the definition in
\* force in metrics.py (it replaces the one of line 121): the rows carry
\* Week, Recruiter, Onsites and Conversion.
get_onsite_conversion_metrics(df, weeks_to_show) ==
    {[Week |-> w, Recruiter |-> r,
      Onsites |-> Cardinality(week_onsites(df, w, r)),
      Conversion |-> conversion(Cardinality(week_onsites(df, w, r)),
                                Cardinality(week_screens(df, w, r)))] :
         w \in Range(latest_weeks(all_weeks(df), weeks_to_show)),
         r \in recruiters(df)}

\* app.py:230-262: get_onsite_conversion_metrics as app.py defines and calls
\* it: the rows carry Screens too.
app_get_onsite_conversion_metrics(df, weeks_to_show) ==
    {[Week |-> w, Recruiter |-> r,
      Screens |-> Cardinality(week_screens(df, w, r)),
      Onsites |-> Cardinality(week_onsites(df, w, r)),
      Conversion |-> conversion(Cardinality(week_onsites(df, w, r)),
                                Cardinality(week_screens(df, w, r)))] :
         w \in Range(latest_weeks(all_weeks(df), weeks_to_show)),
         r \in recruiters(df)}

\* metrics.py:246: strftime('2024-W%V'): the year of the text is fixed.
breakdown_week_key(ts) == <<2024, iso_week(ts)>>

\* metrics.py:267-277: the origin in lower case contains one of the
\* category's keywords.
contains_applied(origin) == origin \in {"Applied", "Applied via LinkedIn"}
contains_sourced(origin) == origin \in {"Sourced", "Applied via LinkedIn"}
contains_referred(origin) == origin \in {"Referred"}

\* metrics.py:225-299: get_weekly_source_breakdown: the recruiter screens of
\* the weeks_to_show * 7 days up to the latest date, per week the number of
\* origins matching each category and the number of screens.
get_weekly_source_breakdown(df, weeks_to_show) ==
    LET most_recent_date == Max({df[i]["Interview Date TZ"] : i \in Indices(df)})
        start_date == most_recent_date - weeks_to_show * 7 * 24 * 60 * 60
        screens == {i \in Indices(df) : /\ df[i]["Interview Date TZ"] >= start_date
                                        /\ is_screen(df[i])}
        wk(i) == breakdown_week_key(df[i]["Interview Date TZ"])
        week_data(w) == {i \in screens : wk(i) = w}
    IN  {[Week |-> w,
          Applied |-> Cardinality({i \in week_data(w) :
                                      contains_applied(df[i]["Candidate Origin"])}),
          Sourced |-> Cardinality({i \in week_data(w) :
                                      contains_sourced(df[i]["Candidate Origin"])}),
          Referred |-> Cardinality({i \in week_data(w) :
                                       contains_referred(df[i]["Candidate Origin"])}),
          Total |-> Cardinality(week_data(w))] :
             w \in {wk(i) : i \in screens}}

\* The rows of df at the indices idx, in the order of df.
RECURSIVE Select(_, _, _)
Select(df, idx, from) ==
    IF from > Len(df) THEN <<>>
    ELSE (IF from \in idx THEN <<from>> ELSE <<>>) \o Select(df, idx, from + 1)

\* The onsite rows of a candidate, in the order of df.
candidate_onsite(df, name) ==
    Select(df, {j \in Indices(df) :
                   is_onsite(df[j]) /\ df[j]["Candidate Name"] = name}, 1)

\* Timedelta.days: whole days, rounded down.
days(seconds) == seconds \div (24 * 60 * 60)

\* A screen whose candidate has no onsite row gets a row of zero days.
app_get_time_to_hire_metrics_zero_filled(df) ==
    LET screens == Select(df, {i \in Indices(df) : is_screen(df[i])}, 1)
    IN  [k \in 1..Len(screens) |->
            LET screen == df[screens[k]]
                onsite == candidate_onsite(df, screen["Candidate Name"])
            IN  [Week |-> week_key(screen["Interview Date TZ"]),
                 Recruiter |-> screen["Interviewer"],
                 TimeToOnsite |->
                     IF onsite = <<>> THEN 0
                     ELSE days(df[onsite[1]]["Interview Date TZ"]
                                 - screen["Interview Date TZ"])]]

\* app.py:276-295: get_time_to_hire_metrics as app.py defines it: one row
\* per recruiter screen whose candidate has an onsite row, with the days from
\* the screen to the candidate's first onsite row (iloc[0]).
app_get_time_to_hire_metrics(df) ==
    LET screens == Select(df, {i \in Indices(df) :
                                  /\ is_screen(df[i])
                                  /\ candidate_onsite(df, df[i]["Candidate Name"]) # <<>>}, 1)
    IN  [k \in 1..Len(screens) |->
            LET screen == df[screens[k]]
                first == df[candidate_onsite(df, screen["Candidate Name"])[1]]
            IN  [Week |-> week_key(screen["Interview Date TZ"]),
                 Recruiter |-> screen["Interviewer"],
                 TimeToOnsite |-> days(first["Interview Date TZ"]
                                         - screen["Interview Date TZ"])]]

\* metrics.py:571-576: pd.merge(recruiter_screens, onsite_interviews,
\* on='Candidate Name'): every (screen, onsite) pair of one candidate.
merged(df) ==
    {p \in Indices(df) \X Indices(df) :
        /\ is_screen(df[p[1]])
        /\ is_onsite(df[p[2]])
        /\ df[p[1]]["Candidate Name"] = df[p[2]]["Candidate Name"]}

RECURSIVE seconds_to_hire(_, _)
seconds_to_hire(df, pairs) ==
    IF pairs = {} THEN 0
    ELSE LET p == CHOOSE q \in pairs : TRUE
         IN  df[p[2]]["Interview Date TZ"] - df[p[1]]["Interview Date TZ"]
                 + seconds_to_hire(df, pairs \ {p})

\* metrics.py:555-589: get_time_to_hire_metrics, the definition in force in
\* metrics.py: the mean of days_to_hire over the merged pairs, kept as the
\* sum of the seconds and the number of terms (no term: NaN).
get_time_to_hire_metrics(df) ==
    [seconds |-> seconds_to_hire(df, merged(df)), terms |-> Cardinality(merged(df))]

\* The share of a recruiter's screens that have a score of 4 or more, over
\* the screens that have a score.
app_get_quality_metrics_scored_only(df, weeks_to_show) ==
    LET weeks == Range(latest_weeks(all_weeks(df), weeks_to_show))
        recruiter_screens == {i \in Indices(df) : is_screen(df[i]) /\ Week(df, i) \in weeks}
        x(r) == {i \in recruiter_screens :
                    df[i]["Interviewer"] = r /\ df[i]["Overall Score"] # <<>>}
    IN  {[Interviewer |-> r,
          OverallScore |->
              IF x(r) = {} THEN 0
              ELSE round1(Cardinality({i \in x(r) : df[i]["Overall Score"][1] >= 4}),
                          Cardinality(x(r)))] :
             r \in {df[i]["Interviewer"] : i \in recruiter_screens}}

\* app.py:297-313: get_quality_metrics(df, weeks_to_show): per interviewer of
\* the rows whose form says recruiter screen, in the latest weeks of all the
\* rows, sum(score >= 4) / len(x) * 100 rounded to one decimal, in tenths.
app_get_quality_metrics(df, weeks_to_show) ==
    LET weeks == Range(latest_weeks(all_weeks(df), weeks_to_show))
        recruiter_screens == {i \in Indices(df) : is_screen(df[i]) /\ Week(df, i) \in weeks}
        x(r) == {i \in recruiter_screens : df[i]["Interviewer"] = r}
    IN  {[Interviewer |-> r,
          OverallScore |->
              round1(Cardinality({i \in x(r) : /\ df[i]["Overall Score"] # <<>>
                                               /\ df[i]["Overall Score"][1] >= 4}),
                     Cardinality(x(r)))] :
             r \in {df[i]["Interviewer"] : i \in recruiter_screens}}

\* Timestamp.weekday(): Monday is 0.  Day 0 is Monday 2024-01-01.
weekday(ts) == day_of(ts) % 7

\* metrics.py:591-611: get_latest_week_data(df): the rows at or after the
\* latest date minus weekday() days, in the order of df.
get_latest_week_data(df) ==
    LET latest_date == Max({df[i]["Interview Date TZ"] : i \in Indices(df)})
        week_start == latest_date - weekday(latest_date) * 24 * 60 * 60
        kept == Select(df, {i \in Indices(df) :
                               df[i]["Interview Date TZ"] >= week_start}, 1)
    IN  [k \in 1..Len(kept) |-> df[kept[k]]]

\* app.py:451-478, 570-622: the values of the dashboard's metric cards.  The
\* week of the first row of the one-week screen metrics is taken with
\* .iloc[0], which raises IndexError on an empty table; nothing catches it,
\* so the script run ends there.
dashboard_raises(df) == app_get_recruiter_screen_metrics(df, 1) = {}

dashboard_values(df) ==
    LET latest_metrics == app_get_recruiter_screen_metrics(df, 1)
        prev_metrics == app_get_recruiter_screen_metrics(df, 2)
        iloc0 == (CHOOSE row \in latest_metrics : TRUE).Week
        prev_week_metrics == {row \in prev_metrics : row.Week # iloc0}
        prev_week_onsites ==
            {row \in app_get_onsite_interview_metrics(df, 2) : row.Week # iloc0}
        prev_week_conversion ==
            {row \in app_get_onsite_conversion_metrics(df, 2) : row.Week # iloc0}
    IN  [latest_metrics |-> latest_metrics,
         onsite_metrics |-> app_get_onsite_conversion_metrics(df, 1),
         onsite_interview_metrics |-> app_get_onsite_interview_metrics(df, 1),
         prev_week_metrics |-> prev_week_metrics,
         prev_week_onsites |-> prev_week_onsites,
         prev_week_conversion |-> prev_week_conversion,
         recruiters |->
             {[Recruiter |-> r,
               prev_data |-> {row \in prev_week_metrics : row.Recruiter = r},
               prev_onsite |-> {row \in prev_week_conversion : row.Recruiter = r}] :
                  r \in {row.Recruiter : row \in latest_metrics}}]

\* ------------------------------------------- calls of the metric functions
\* A metric function is called on the loaded table when it has rows
\* (app.py:451-452).  A call depends on nothing but its arguments, so a
\* behaviour is one call.
call_get_recruiter_screen_metrics(n) ==
    /\ recruitment_data # <<>>
    /\ computed = NothingComputed
    /\ computed' = Computed("metrics.get_recruiter_screen_metrics", n,
                            get_recruiter_screen_metrics(load_from_db(NoFault), n))
    /\ last' = Op("metrics.get_recruiter_screen_metrics", "", <<>>, NoFault, "ok", 0)
    /\ UNCHANGED <<recruitment_data, file_uploads, records_counted, session, cache,
                   rendered, now>>

call_app_get_recruiter_screen_metrics(n) ==
    /\ recruitment_data # <<>>
    /\ computed = NothingComputed
    /\ computed' = Computed("app.get_recruiter_screen_metrics", n,
                            app_get_recruiter_screen_metrics(load_from_db(NoFault), n))
    /\ last' = Op("app.get_recruiter_screen_metrics", "", <<>>, NoFault, "ok", 0)
    /\ UNCHANGED <<recruitment_data, file_uploads, records_counted, session, cache,
                   rendered, now>>

call_get_onsite_interview_metrics(n) ==
    /\ recruitment_data # <<>>
    /\ computed = NothingComputed
    /\ computed' = Computed("metrics.get_onsite_interview_metrics", n,
                            get_onsite_interview_metrics(load_from_db(NoFault), n))
    /\ last' = Op("metrics.get_onsite_interview_metrics", "", <<>>, NoFault, "ok", 0)
    /\ UNCHANGED <<recruitment_data, file_uploads, records_counted, session, cache,
                   rendered, now>>

call_app_get_onsite_interview_metrics(n) ==
    /\ recruitment_data # <<>>
    /\ computed = NothingComputed
    /\ computed' = Computed("app.get_onsite_interview_metrics", n,
                            app_get_onsite_interview_metrics(load_from_db(NoFault), n))
    /\ last' = Op("app.get_onsite_interview_metrics", "", <<>>, NoFault, "ok", 0)
    /\ UNCHANGED <<recruitment_data, file_uploads, records_counted, session, cache,
                   rendered, now>>

call_get_onsite_conversion_metrics(n) ==
    /\ recruitment_data # <<>>
    /\ computed = NothingComputed
    /\ computed' = Computed("metrics.get_onsite_conversion_metrics", n,
                            get_onsite_conversion_metrics(load_from_db(NoFault), n))
    /\ last' = Op("metrics.get_onsite_conversion_metrics", "", <<>>, NoFault, "ok", 0)
    /\ UNCHANGED <<recruitment_data, file_uploads, records_counted, session, cache,
                   rendered, now>>

call_app_get_onsite_conversion_metrics(n) ==
    /\ recruitment_data # <<>>
    /\ computed = NothingComputed
    /\ computed' = Computed("app.get_onsite_conversion_metrics", n,
                            app_get_onsite_conversion_metrics(load_from_db(NoFault), n))
    /\ last' = Op("app.get_onsite_conversion_metrics", "", <<>>, NoFault, "ok", 0)
    /\ UNCHANGED <<recruitment_data, file_uploads, records_counted, session, cache,
                   rendered, now>>

call_get_weekly_source_breakdown(n) ==
    /\ recruitment_data # <<>>
    /\ computed = NothingComputed
    /\ computed' = Computed("metrics.get_weekly_source_breakdown", n,
                            get_weekly_source_breakdown(load_from_db(NoFault), n))
    /\ last' = Op("metrics.get_weekly_source_breakdown", "", <<>>, NoFault, "ok", 0)
    /\ UNCHANGED <<recruitment_data, file_uploads, records_counted, session, cache,
                   rendered, now>>

\* metrics.py:104-108, 504; app.py:238, 339: the week window of an
\* aggregator, over the weeks of all the rows.
call_latest_weeks(n) ==
    /\ recruitment_data # <<>>
    /\ computed = NothingComputed
    /\ computed' = Computed("latest_weeks", n,
                            latest_weeks(all_weeks(load_from_db(NoFault)), n))
    /\ last' = Op("latest_weeks", "", <<>>, NoFault, "ok", 0)
    /\ UNCHANGED <<recruitment_data, file_uploads, records_counted, session, cache,
                   rendered, now>>

call_app_get_time_to_hire_metrics ==
    /\ recruitment_data # <<>>
    /\ computed = NothingComputed
    /\ computed' = Computed("app.get_time_to_hire_metrics", 0,
                            app_get_time_to_hire_metrics(load_from_db(NoFault)))
    /\ last' = Op("app.get_time_to_hire_metrics", "", <<>>, NoFault, "ok", 0)
    /\ UNCHANGED <<recruitment_data, file_uploads, records_counted, session, cache,
                   rendered, now>>

call_get_time_to_hire_metrics ==
    /\ recruitment_data # <<>>
    /\ computed = NothingComputed
    /\ computed' = Computed("metrics.get_time_to_hire_metrics", 0,
                            get_time_to_hire_metrics(load_from_db(NoFault)))
    /\ last' = Op("metrics.get_time_to_hire_metrics", "", <<>>, NoFault, "ok", 0)
    /\ UNCHANGED <<recruitment_data, file_uploads, records_counted, session, cache,
                   rendered, now>>

\* A cache key that leaves the dataset out.
cache_key_without_df(df, weeks_to_show) == [df |-> <<>>, weeks_to_show |-> weeks_to_show]

\* metrics.py:44: st.cache_data keys an entry by the hash of the arguments,
\* the dataset's content and weeks_to_show.
cache_key(df, weeks_to_show) == [df |-> df, weeks_to_show |-> weeks_to_show]

\* metrics.py:44: entries older than the time to live are dropped.
unexpired(entries) == {e \in entries : now - e.stored_at < CACHE_TTL}

\* metrics.py:44-45: the memoized call: the stored value on a hit, else the
\* function runs and its result is stored.  computed_for is the dataset the
\* returned value was computed from.
cached_get_recruiter_screen_metrics(entries, df, weeks_to_show) ==
    LET key == cache_key(df, weeks_to_show)
        live == unexpired(entries)
        hits == {e \in live : e.key = key}
    IN  IF hits # {}
        THEN LET e == CHOOSE e \in hits : TRUE
             IN  [value |-> e.value, computed_for |-> e.computed_for, entries |-> live]
        ELSE LET value == get_recruiter_screen_metrics(df, weeks_to_show)
             IN  [value |-> value, computed_for |-> df,
                  entries |-> live \cup {[key |-> key, value |-> value,
                                          computed_for |-> df, stored_at |-> now]}]

\* app.py:450-461: a dashboard render: load the table and, when it has rows,
\* compute the screen metrics of the latest week and of the latest two weeks.
render ==
    /\ LET df == load_from_db(NoFault)
           latest == cached_get_recruiter_screen_metrics(cache, df, 1)
           prev == cached_get_recruiter_screen_metrics(latest.entries, df, 2)
       IN  IF df = <<>>
           THEN /\ rendered' = NothingRendered
                /\ UNCHANGED cache
           ELSE /\ rendered' = [latest_metrics |-> latest.value,
                                prev_metrics |-> prev.value,
                                computed_for |-> {latest.computed_for, prev.computed_for}]
                /\ cache' = prev.entries
    /\ last' = Op("render", "", <<>>, NoFault, "ok", 0)
    /\ UNCHANGED <<recruitment_data, file_uploads, records_counted, session, computed,
                   now>>

\* Time passes: a second short of a time to live, or a whole one.
tick(d) ==
    /\ now + d <= MaxClock * CACHE_TTL
    /\ now' = now + d
    /\ UNCHANGED <<recruitment_data, file_uploads, records_counted, session, cache,
                   rendered, computed, last>>

call_app_get_quality_metrics(n) ==
    /\ recruitment_data # <<>>
    /\ computed = NothingComputed
    /\ computed' = Computed("app.get_quality_metrics", n,
                            app_get_quality_metrics(load_from_db(NoFault), n))
    /\ last' = Op("app.get_quality_metrics", "", <<>>, NoFault, "ok", 0)
    /\ UNCHANGED <<recruitment_data, file_uploads, records_counted, session, cache,
                   rendered, now>>

call_get_latest_week_data ==
    /\ recruitment_data # <<>>
    /\ computed = NothingComputed
    /\ computed' = Computed("metrics.get_latest_week_data", 0,
                            get_latest_week_data(load_from_db(NoFault)))
    /\ last' = Op("metrics.get_latest_week_data", "", <<>>, NoFault, "ok", 0)
    /\ UNCHANGED <<recruitment_data, file_uploads, records_counted, session, cache,
                   rendered, now>>

\* app.py:451-478: one run of the dashboard part of the script on the
\* loaded table, when it has rows.
dashboard ==
    /\ recruitment_data # <<>>
    /\ computed = NothingComputed
    /\ LET df == load_from_db(NoFault)
       IN  IF dashboard_raises(df)
           THEN /\ computed' = Computed("dashboard", 0, {})
                /\ last' = Op("dashboard", "", <<>>, NoFault, "raised", 0)
           ELSE /\ computed' = Computed("dashboard", 0, dashboard_values(df))
                /\ last' = Op("dashboard", "", <<>>, NoFault, "ok", 0)
    /\ UNCHANGED <<recruitment_data, file_uploads, records_counted, session, cache,
                   rendered, now>>

\* ------------------------------------------- functions of a table handed in
\* The Week and Recruiter values of the rows of a screen metrics table, in
\* their sorted order, and the greatest Total Screens of a row.
MaxScreens == 3
TableWeeks == <<<<2024, 2>>, <<2024, 3>>>>
TableRecruiters == <<"RecruiterA", "RecruiterB">>

\* The groups of a table in the order groupby(['Week', 'Recruiter']) leaves
\* them (metrics.py:67-70, app.py:219-222).
TableGroups ==
    [k \in 1..(Len(TableWeeks) * Len(TableRecruiters)) |->
        <<TableWeeks[((k - 1) \div Len(TableRecruiters)) + 1],
          TableRecruiters[((k - 1) % Len(TableRecruiters)) + 1]>>]

\* The screen metrics tables: a row for every group that has screens.
MetricsTables ==
    {LET all == [k \in 1..Len(TableGroups) |->
                    [Week |-> TableGroups[k][1], Recruiter |-> TableGroups[k][2],
                     TotalScreens |-> screens[k]]]
     IN  SelectSeq(all, LAMBDA row : row.TotalScreens > 0) :
        screens \in [1..Len(TableGroups) -> 0..MaxScreens]}

\* Series.idxmax(): the first label, in the order of the series, that carries
\* the greatest value.
idxmax(values) ==
    CHOOSE i \in 1..Len(values) :
        /\ \A j \in 1..Len(values) : values[j] <= values[i]
        /\ \A j \in 1..(i - 1) : values[j] < values[i]

RECURSIVE sum_total_screens(_)
sum_total_screens(rows) ==
    IF rows = <<>> THEN 0
    ELSE Head(rows).TotalScreens + sum_total_screens(Tail(rows))

\* metrics.py:466-482 (the definition in force): the recruiter with the
\* greatest sum of Total Screens; None, written <<>>, on an empty table.
get_star_recruiter(metrics_df) ==
    IF metrics_df = <<>> THEN <<>>
    ELSE LET labels == SelectSeq(TableRecruiters,
                 LAMBDA r : \E i \in 1..Len(metrics_df) : metrics_df[i].Recruiter = r)
             recruiter_totals ==
                 [k \in 1..Len(labels) |->
                     sum_total_screens(SelectSeq(metrics_df,
                         LAMBDA row : row.Recruiter = labels[k]))]
         IN  <<labels[idxmax(recruiter_totals)]>>

\* app.py:353-357: the Recruiter of the row with the greatest Total Screens.
app_get_star_recruiter(metrics_df) ==
    IF metrics_df = <<>> THEN <<>>
    ELSE <<metrics_df[idxmax([i \in 1..Len(metrics_df) |->
                                 metrics_df[i].TotalScreens])].Recruiter>>

\* The frames handed to validate_metrics_data: every required column is
\* absent, or present under its display name or under its database name; a
\* frame has a number of rows; or there is no frame at all (None).
Frame(columns, rows) == [is_frame |-> TRUE, columns |-> columns, rows |-> rows]
NoFrame == [is_frame |-> FALSE, columns |-> {}, rows |-> 0]
FrameColumns ==
    {"Interviewer", "Feedback Form", "Overall Score", "Interview Date TZ",
     "Candidate Name", "Candidate Origin"}
Frames ==
    {Frame({c \in FrameColumns : naming[c] = "display"}
               \cup {DisplayToDb[c] : c \in {d \in FrameColumns : naming[d] = "database"}},
           rows) :
        naming \in [FrameColumns -> {"absent", "display", "database"}],
        rows \in 0..MaxRecords}
        \cup {NoFrame}

\* metrics.py:8-15, 18-25.
required_columns ==
    <<"Interviewer", "Feedback Form", "Overall Score", "Interview Date TZ",
      "Candidate Name", "Candidate Origin">>
\* A mapping that renames nothing: only the display names are accepted.
column_mapping_display_only == [c \in {} |-> c]

column_mapping ==
    [c \in {"interviewer", "feedback_form", "overall_score", "interview_date",
            "candidate_name", "candidate_origin"} |-> DbToDisplay[c]]

\* metrics.py:5-42: validate_metrics_data(df), as the pair it returns: the
\* flag and the message, a message being its kind and the columns it names.
validate_metrics_data(df) ==
    IF ~df.is_frame
    THEN [ok |-> FALSE, message |-> <<"Error validating metrics data", <<>>>>]
    ELSE LET columns == {IF c \in DOMAIN column_mapping THEN column_mapping[c] ELSE c :
                            c \in df.columns}
             missing_cols == SelectSeq(required_columns, LAMBDA col : col \notin columns)
         IN  IF missing_cols # <<>>
             THEN [ok |-> FALSE,
                   message |-> <<"Missing required columns", missing_cols>>]
             ELSE IF df.rows = 0
             THEN [ok |-> FALSE,
                   message |-> <<"No data available for metrics calculation", <<>>>>]
             ELSE [ok |-> TRUE, message |-> <<>>]

call_get_star_recruiter(metrics_df) ==
    /\ computed = NothingComputed
    /\ computed' = Computed("metrics.get_star_recruiter", 0,
                            [metrics_df |-> metrics_df,
                             star |-> get_star_recruiter(metrics_df)])
    /\ last' = Op("metrics.get_star_recruiter", "", <<>>, NoFault, "ok", 0)
    /\ UNCHANGED <<recruitment_data, file_uploads, records_counted, session, cache,
                   rendered, now>>

call_app_get_star_recruiter(metrics_df) ==
    /\ computed = NothingComputed
    /\ computed' = Computed("app.get_star_recruiter", 0,
                            [metrics_df |-> metrics_df,
                             star |-> app_get_star_recruiter(metrics_df)])
    /\ last' = Op("app.get_star_recruiter", "", <<>>, NoFault, "ok", 0)
    /\ UNCHANGED <<recruitment_data, file_uploads, records_counted, session, cache,
                   rendered, now>>

call_validate_metrics_data(df) ==
    /\ computed = NothingComputed
    /\ computed' = Computed("metrics.validate_metrics_data", 0,
                            [df |-> df, returned |-> validate_metrics_data(df)])
    /\ last' = Op("metrics.validate_metrics_data", "", <<>>, NoFault, "ok", 0)
    /\ UNCHANGED <<recruitment_data, file_uploads, records_counted, session, cache,
                   rendered, now>>

\* ---------------------------------------------------------- specifications
\* The store answers every call.
Next ==
    \/ \E filename \in Filenames, batch \in Batches :
           upload(filename, batch, NoFault)
    \/ \E batch \in Batches : database_save_to_db(batch, NoFault)
    \/ \E filename \in Filenames : delete_button(filename, NoFault)

Spec == Init /\ [][Next]_vars

\* The upload flow run by several sessions at once, interleaved between the
\* load of the existing rows and the insert.
NextRace ==
    \/ \E s \in Sessions, filename \in {"jan.csv"}, batch \in WellFormedBatches :
           upload_load(s, filename, batch)
    \/ \E s \in Sessions : upload_save(s)

SpecRace == Init /\ [][NextRace]_vars

\* Uploads, renders and the clock.  The file's name plays no part in a render.
NextDash ==
    \/ \E filename \in {"jan.csv"}, batch \in WellFormedBatches :
           upload(filename, batch, NoFault)
    \/ render
    \/ \E d \in {CACHE_TTL - 1, CACHE_TTL} : tick(d)

SpecDash == Init /\ [][NextDash]_vars

\* The metric functions on a table holding any dataset.
Datasets == {to_records(read_csv(events)) : events \in SeqsUpTo(Events, MaxEvents)}

InitMetrics ==
    /\ recruitment_data \in Datasets
    /\ session = [s \in Sessions |-> Idle]
    /\ cache = {}
    /\ rendered = NothingRendered
    /\ computed = NothingComputed
    /\ file_uploads = <<>>
    /\ records_counted = 0
    /\ now = 0
    /\ last = [op |-> "init", filename |-> "", batch |-> <<>>, fault |-> NoFault,
               outcome |-> "ok", returned |-> 0, repeat |-> FALSE,
               count_before |-> 0, uploads_before |-> 0]

NextMetrics ==
    \/ \E n \in WeeksToShow : call_get_recruiter_screen_metrics(n)
    \/ \E n \in WeeksToShow : call_app_get_recruiter_screen_metrics(n)
    \/ \E n \in WeeksToShow : call_get_onsite_interview_metrics(n)
    \/ \E n \in WeeksToShow : call_app_get_onsite_interview_metrics(n)
    \/ \E n \in WeeksToShow : call_get_onsite_conversion_metrics(n)
    \/ \E n \in WeeksToShow : call_app_get_onsite_conversion_metrics(n)
    \/ \E n \in WeeksToShow : call_get_weekly_source_breakdown(n)
    \/ \E n \in WeeksToShow : call_latest_weeks(n)
    \/ call_app_get_time_to_hire_metrics
    \/ call_get_time_to_hire_metrics
    \/ \E n \in WeeksToShow : call_app_get_quality_metrics(n)
    \/ call_get_latest_week_data
    \/ dashboard

SpecMetrics == InitMetrics /\ [][NextMetrics]_vars

\* The functions that take a table from their caller, on any such table.
NextFrames ==
    \/ \E metrics_df \in MetricsTables : call_get_star_recruiter(metrics_df)
    \/ \E metrics_df \in MetricsTables : call_app_get_star_recruiter(metrics_df)
    \/ \E df \in Frames : call_validate_metrics_data(df)

SpecFrames == Init /\ [][NextFrames]_vars

\* Any store call may raise.
NextFault ==
    \/ \E filename \in Filenames, batch \in WellFormedBatches, f \in Faults :
           upload(filename, batch, f)
    \/ \E batch \in WellFormedBatches, f \in Faults : database_save_to_db(batch, f)
    \/ \E filename \in Filenames, f \in Faults : delete_button(filename, f)

SpecFault == Init /\ [][NextFault]_vars

\* The app.py sidebar alone, any store call may raise.
NextAppFault ==
    \/ \E filename \in Filenames, batch \in WellFormedBatches, f \in Faults :
           upload(filename, batch, f)
    \/ \E filename \in Filenames, f \in Faults : delete_button(filename, f)

SpecAppFault == Init /\ [][NextAppFault]_vars

\* ------------------------------------------------------------------ claims
\* The natural key of a stored row: candidate, timestamp truncated to the
\* minute, form type.
NaturalKey(r) ==
    LET t == to_datetime(r["interview_date"])
    IN  <<r["candidate_name"], t - (t % 60), r["feedback_form"]>>

NaturalKeys(table) == {NaturalKey(table[i]) : i \in 1..Len(table)}

\* C1: in the sidebar upload flow of app.py, uploading the same batch a second
\* time, right after an upload of it that ended well, leaves the number of
\* persisted rows as it was after the first upload.
C1_UploadTwiceKeepsCount ==
    (last.op = "upload" /\ last.repeat)
        => Len(recruitment_data) = last.count_before

\* The second upload of a batch of well formed rows whose first upload
\* persisted rows.
C1_Witness ==
    /\ last.op = "upload" /\ last.repeat /\ last.outcome = "ok"
    /\ Len(last.batch) > 0
    /\ ~read_csv_raises(last.batch)
    /\ NaturalKeys(to_records(read_csv(last.batch)))
           \subseteq NaturalKeys(recruitment_data)

\* C2: a second database.save_to_db of the same batch, right after a first
\* that ended well, finds every row's key among the keys of the stored rows,
\* inserts nothing and returns 0.
C2_SecondSaveInsertsNothing ==
    (last.op = "database.save_to_db" /\ last.repeat)
        => /\ last.returned = 0
           /\ Len(recruitment_data) = last.count_before

\* C3: no two persisted rows have the same natural key.
C3_NoDuplicateNaturalKey ==
    \A i, j \in 1..Len(recruitment_data) :
        i # j => NaturalKey(recruitment_data[i]) # NaturalKey(recruitment_data[j])

\* The table before the last operation (rows are only ever appended) and the
\* rows the last operation appended.
TableBefore == SubSeq(recruitment_data, 1, last.count_before)
Appended == SubSeq(recruitment_data, last.count_before + 1, Len(recruitment_data))

\* The rows of a batch whose natural key is absent from a table, as records.
AbsentRecords(batch, table) ==
    LET absent(row) == NaturalKey(to_record(row)) \notin NaturalKeys(table)
        df == SelectSeq(parse_dates(batch), absent)
    IN  [i \in 1..Len(df) |-> to_record(df[i])]

\* C4: the rows a database.save_to_db inserts are exactly the rows of the
\* batch whose natural key is absent from the persisted rows, in the batch's
\* order.
C4_InsertsExactlyAbsentKeys ==
    (last.op = "database.save_to_db" /\ last.outcome = "ok")
        => Appended = AbsentRecords(last.batch, TableBefore)

\* C6: an ingest that ends in a store error leaves the persisted rows as
\* they were before it.
C6_FailedIngestPersistsNothing ==
    (last.op \in {"upload", "database.save_to_db"} /\ last.outcome # "ok")
        => Len(recruitment_data) = last.count_before

\* A date text the conversion of the operation cannot parse.
CannotParse(op, text) ==
    IF op = "upload" THEN text.fmt = "malformed"
    ELSE text.fmt # "%m/%d/%y %H:%M"

\* C7: an ingest of a batch with a date that cannot be parsed persists no
\* row and creates no upload record.
C7_UnparseableDateFailsBatch ==
    (/\ last.op \in {"upload", "database.save_to_db"}
     /\ \E i \in 1..Len(last.batch) :
            CannotParse(last.op, last.batch[i]["Interview Date TZ"]))
        => /\ Len(recruitment_data) = last.count_before
           /\ Len(file_uploads) = last.uploads_before

\* An upload of a well formed row, new to the table, together with a
\* malformed one.
C7_Witness ==
    /\ last.op = "upload"
    /\ \E i, j \in 1..Len(last.batch) :
           /\ last.batch[i]["Interview Date TZ"].fmt = "malformed"
           /\ last.batch[j]["Interview Date TZ"].fmt # "malformed"
           /\ NaturalKey(to_records(read_csv(<<last.batch[j]>>))[1])
                  \notin NaturalKeys(recruitment_data)
    /\ last.outcome = "raised"

\* C8: every step leaves the persisted rows in place, unchanged and in
\* order; a remove_file_record(filename) leaves recruitment_data as it is
\* and deletes the file_uploads rows of that filename and no other.
C8_AppendOnly ==
    [][/\ Len(recruitment_data') >= Len(recruitment_data)
       /\ SubSeq(recruitment_data', 1, Len(recruitment_data)) = recruitment_data
       /\ last'.op = "remove_file_record"
              => /\ recruitment_data' = recruitment_data
                 /\ LET other(r) == r.filename # last'.filename
                    IN  file_uploads' = SelectSeq(file_uploads, other)]_vars

\* An upload record was deleted while rows are persisted and another
\* upload record stays.
C8_Witness ==
    /\ last.op = "remove_file_record"
    /\ Len(recruitment_data) > 0
    /\ Len(file_uploads) > 0
    /\ Len(file_uploads) < last.uploads_before

\* C9: an upload that persisted rows created exactly one upload record, whose
\* record_count is the number of rows it added; an upload whose insert failed
\* created none; and the record_count of all upload records ever created sum
\* to the number of persisted rows.
C9_UploadRecordCountsPersisted ==
    /\ (last.op = "upload" /\ Len(recruitment_data) > last.count_before)
           => /\ Len(file_uploads) = last.uploads_before + 1
              /\ file_uploads[Len(file_uploads)].record_count
                     = Len(recruitment_data) - last.count_before
    /\ (last.op = "upload" /\ last.outcome = "failed")
           => Len(file_uploads) = last.uploads_before
    /\ records_counted = Len(recruitment_data)

\* How many persisted rows have the natural key k.
Occurrences(k) ==
    Cardinality({i \in 1..Len(recruitment_data) :
                     NaturalKey(recruitment_data[i]) = k})

SavedKeys(s) == NaturalKeys(to_records(session[s].df_to_save))

\* Two sessions whose uploads both loaded the same table, before either
\* inserted, and both inserted since.
BothLoadedBeforeEitherInserted(s1, s2) ==
    /\ s1 # s2
    /\ session[s1].pc = "done" /\ session[s2].pc = "done"
    /\ session[s1].df_to_save # <<>> /\ session[s2].df_to_save # <<>>
    /\ session[s1].loaded_count = session[s2].loaded_count

\* C5: when two uploads load the persisted rows before either inserts, a row
\* whose natural key is in both batches is inserted by both: the key is
\* persisted twice.
C5_RacingUploadsBothInsert ==
    \A s1, s2 \in Sessions :
        BothLoadedBeforeEitherInserted(s1, s2)
            => \A k \in SavedKeys(s1) \cap SavedKeys(s2) : Occurrences(k) >= 2

\* Two sessions raced on a common natural key and the table holds it twice.
C5_Witness ==
    \E s1, s2 \in Sessions :
        /\ BothLoadedBeforeEitherInserted(s1, s2)
        /\ \E k \in SavedKeys(s1) \cap SavedKeys(s2) : Occurrences(k) >= 2
        /\ Cardinality(SavedKeys(s1)) = Len(session[s1].df_to_save)
        /\ Cardinality(SavedKeys(s2)) = Len(session[s2].df_to_save)

\* C10: a render returns the metrics of the rows persisted at the time of
\* the render, computed from exactly those rows: never a result memoized for
\* an earlier content of the table, within the time to live or past it.
C10_RenderIsNeverStale ==
    (last.op = "render" /\ recruitment_data # <<>>)
        => LET df == load_from_db(NoFault)
           IN  /\ rendered.computed_for = {df}
               /\ rendered.latest_metrics = get_recruiter_screen_metrics(df, 1)
               /\ rendered.prev_metrics = get_recruiter_screen_metrics(df, 2)

\* A render after an ingest, while the cache still holds, within its time to
\* live, a different result memoized for the table before the ingest.
C10_Witness ==
    /\ last.op = "render" /\ recruitment_data # <<>>
    /\ \E e \in cache :
           /\ now - e.stored_at < CACHE_TTL
           /\ e.key.weeks_to_show = 1
           /\ e.computed_for # load_from_db(NoFault)
           /\ Len(e.computed_for) < Len(recruitment_data)
           /\ e.value # rendered.latest_metrics

\* ------------------------------------------------------ the metric claims
\* The table as the metric functions receive it.
Dataset == load_from_db(NoFault)
Instant(i) == Dataset[i]["Interview Date TZ"]

\* Two instants lie in one Monday-to-Sunday week.
SameIsoWeek(t1, t2) == day_of(t1) \div 7 = day_of(t2) \div 7

\* C11: the week key of an event identifies its ISO week: two events of a
\* dataset have the same key exactly when they lie in the same Monday-to-
\* Sunday week, and the year of the key is the ISO year of that week.
C11_WeekKeyIsIsoWeek ==
    computed.fn # "none" =>
        \A i, j \in Indices(Dataset) :
            /\ (Week(Dataset, i) = Week(Dataset, j))
                   <=> SameIsoWeek(Instant(i), Instant(j))
            /\ Week(Dataset, i)[1] = iso_year(Instant(i))

\* C12: the week window for n weeks is the ascending list of the min(n, k)
\* greatest of the k distinct week keys, its weeks are the most recent ones
\* holding events, and for n >= 1 it holds the week of the latest event.
C12_WindowIsLatestWeeks ==
    computed.fn = "latest_weeks" =>
        LET window == computed.value
            n == computed.weeks_to_show
            keys == all_weeks(Dataset)
            k == Cardinality(keys)
            latest == CHOOSE i \in Indices(Dataset) :
                          \A j \in Indices(Dataset) : Instant(j) <= Instant(i)
        IN  /\ Len(window) = (IF n < k THEN n ELSE k)
            /\ \A a, b \in 1..Len(window) : a < b => week_less(window[a], window[b])
            /\ Range(window) \subseteq keys
            /\ \A w \in Range(window), v \in keys \ Range(window) : week_less(v, w)
            /\ \A i, j \in Indices(Dataset) :
                   (Week(Dataset, i) \in Range(window)
                        /\ Week(Dataset, j) \notin Range(window))
                       => Instant(j) < Instant(i)
            /\ n >= 1 => Week(Dataset, latest) \in Range(window)

\* The functions that compute the recruiter screen metrics.
ScreenMetricsFns ==
    {"metrics.get_recruiter_screen_metrics", "app.get_recruiter_screen_metrics"}

\* The recruiter screens: the form says so and the interviewer is no onsite
\* interviewer.
RecruiterScreens ==
    {i \in Indices(Dataset) :
        /\ contains_recruiter_screen(Dataset[i]["Feedback Form"])
        /\ Dataset[i]["Interviewer"] \notin onsite_interviewers}

\* The weeks of the rows a function returned.
OutputWeeks == {row.Week : row \in computed.value}

\* The events a function reports on.
Reported(fn) ==
    CASE fn = "metrics.get_recruiter_screen_metrics" -> RecruiterScreens
      [] fn = "metrics.get_onsite_interview_metrics" ->
             {i \in Indices(Dataset) : Dataset[i]["Interviewer"] \in onsite_interviewers}
      [] fn = "metrics.get_onsite_conversion_metrics" ->
             IF RecruiterScreens = {} THEN {} ELSE Indices(Dataset)
      [] fn = "metrics.get_weekly_source_breakdown" ->
             {i \in Indices(Dataset) :
                 contains_recruiter_screen(Dataset[i]["Feedback Form"])}

\* C13: the four aggregators restrict to the same weeks, the weeks_to_show
\* latest week keys over all the events of the dataset: the weeks of the rows
\* a function returns are the weeks of that window in which it has events to
\* report.
C13_SameWindowOverAllEvents ==
    computed.fn \in {"metrics.get_recruiter_screen_metrics",
                     "metrics.get_onsite_interview_metrics",
                     "metrics.get_onsite_conversion_metrics",
                     "metrics.get_weekly_source_breakdown"}
        => LET window == Range(latest_weeks(all_weeks(Dataset), computed.weeks_to_show))
           IN  OutputWeeks =
                   {Week(Dataset, i) : i \in Reported(computed.fn)} \cap window

RECURSIVE SumTotalScreens(_)
SumTotalScreens(rows) ==
    IF rows = {} THEN 0
    ELSE LET row == CHOOSE r \in rows : TRUE
         IN  row.TotalScreens + SumTotalScreens(rows \ {row})

\* The weeks get_recruiter_screen_metrics selects: the latest of the weeks
\* that hold recruiter screens.
SelectedWeeks ==
    Range(latest_weeks({Week(Dataset, i) : i \in RecruiterScreens},
                       computed.weeks_to_show))

\* C14: the Total Screens of the rows get_recruiter_screen_metrics returns
\* add up to the number of recruiter screens in the selected weeks.
C14_TotalScreensAddUp ==
    computed.fn \in ScreenMetricsFns
        => SumTotalScreens(computed.value) =
               Cardinality({i \in RecruiterScreens : Week(Dataset, i) \in SelectedWeeks})

\* A call returning a group of two screens while the window leaves a
\* recruiter screen of another week out.
C14_Witness ==
    /\ computed.fn = "metrics.get_recruiter_screen_metrics"
    /\ \E row \in computed.value : row.TotalScreens >= 2
    /\ \E i \in RecruiterScreens : Week(Dataset, i) \notin SelectedWeeks

\* The screens of the group a row stands for.
GroupOf(row) ==
    {i \in RecruiterScreens : /\ Week(Dataset, i) = row.Week
                              /\ Dataset[i]["Interviewer"] = row.Recruiter}

\* C15: every row of get_recruiter_screen_metrics stands for a group of at
\* least one screen, its Passes are the group's screens scored 3 or more (a
\* missing score is no pass), its Pass Rate is Passes / Total Screens * 100
\* to one decimal, within [0, 100]; Alice's screen alone with weeks_to_show
\* = 1 gives the one row (2024-W02, RecruiterA, 1, 1, 100.0).
C15_ScreenMetricsRows ==
    computed.fn \in ScreenMetricsFns
        => /\ \A row \in computed.value :
                  /\ row.TotalScreens = Cardinality(GroupOf(row))
                  /\ row.TotalScreens >= 1
                  /\ row.Passes =
                         Cardinality({i \in GroupOf(row) :
                                         /\ Dataset[i]["Overall Score"] # <<>>
                                         /\ Dataset[i]["Overall Score"][1] >= 3})
                  /\ 0 <= row.Passes /\ row.Passes <= row.TotalScreens
                  /\ 0 <= row.PassRate /\ row.PassRate <= 1000
                  /\ 2 * (row.PassRate * row.TotalScreens - row.Passes * 1000)
                         <= row.TotalScreens
                  /\ 2 * (row.Passes * 1000 - row.PassRate * row.TotalScreens)
                         <= row.TotalScreens
           /\ (recruitment_data = to_records(read_csv(<<RowAlice>>))
                   /\ computed.weeks_to_show = 1)
                  => computed.value =
                         {[Week |-> <<2024, 2>>, Recruiter |-> "RecruiterA",
                           TotalScreens |-> 1, Passes |-> 1, PassRate |-> 1000]}

\* Alice's screen alone, weeks_to_show = 1, through the function app.py calls.
C15_Witness ==
    /\ computed.fn = "app.get_recruiter_screen_metrics"
    /\ computed.weeks_to_show = 1
    /\ recruitment_data = to_records(read_csv(<<RowAlice>>))
    /\ computed.value # {}

\* The onsite events: the interviewer is an onsite interviewer.
OnsiteEvents ==
    {i \in Indices(Dataset) : Dataset[i]["Interviewer"] \in onsite_interviewers}

\* C16: Total Onsites of a (week, onsite interviewer) row is the number of
\* distinct candidates that interviewer interviewed in that week, not the
\* number of interview rows.
C16_TotalOnsitesCountsCandidates ==
    computed.fn \in {"metrics.get_onsite_interview_metrics",
                     "app.get_onsite_interview_metrics"}
        => \A row \in computed.value :
               row.TotalOnsites =
                   Cardinality({Dataset[i]["Candidate Name"] :
                                   i \in {j \in OnsiteEvents :
                                             /\ Week(Dataset, j) = row.Week
                                             /\ Dataset[j]["Interviewer"] = row.Interviewer}})

\* The events whose form says recruiter screen, and those of one recruiter.
ScreenEvents ==
    {i \in Indices(Dataset) : contains_recruiter_screen(Dataset[i]["Feedback Form"])}
ScreensBy(r) == {i \in ScreenEvents : Dataset[i]["Interviewer"] = r}

\* C17: get_onsite_conversion_metrics returns one row for every week of the
\* window and every recruiter with a recruiter screen anywhere in the
\* dataset, with Onsites the onsite events of the week whose candidate the
\* recruiter ever screened, Screens the recruiter's screens of the week, and
\* Conversion = Onsites / Screens * 100 to one decimal, 0 without screens;
\* Alice's screen and her onsite of 2024-01-10 give RecruiterA in 2024-W02
\* Onsites 1, Screens 1, Conversion 100.0.
C17_ConversionRows ==
    computed.fn \in {"metrics.get_onsite_conversion_metrics",
                     "app.get_onsite_conversion_metrics"}
        => LET window == Range(latest_weeks(all_weeks(Dataset), computed.weeks_to_show))
               recs == {Dataset[i]["Interviewer"] : i \in RecruiterScreens}
               onsites(w, r) ==
                   Cardinality({i \in OnsiteEvents :
                       /\ Week(Dataset, i) = w
                       /\ \E j \in ScreensBy(r) :
                              Dataset[j]["Candidate Name"] = Dataset[i]["Candidate Name"]})
               screens(w, r) ==
                   Cardinality({i \in ScreensBy(r) : Week(Dataset, i) = w})
           IN  /\ {<<row.Week, row.Recruiter>> : row \in computed.value} = window \X recs
               /\ Cardinality(computed.value) = Cardinality(window \X recs)
               /\ \A row \in computed.value :
                      /\ row.Onsites = onsites(row.Week, row.Recruiter)
                      /\ "Screens" \in DOMAIN row
                      /\ row.Screens = screens(row.Week, row.Recruiter)
                      /\ IF row.Screens = 0 THEN row.Conversion = 0
                         ELSE /\ 2 * (row.Conversion * row.Screens - row.Onsites * 1000)
                                     <= row.Screens
                              /\ 2 * (row.Onsites * 1000 - row.Conversion * row.Screens)
                                     <= row.Screens
               /\ (recruitment_data = to_records(read_csv(<<RowAlice, RowAliceOnsite>>))
                       /\ computed.weeks_to_show = 1)
                      => \E row \in computed.value :
                             /\ row.Week = <<2024, 2>> /\ row.Recruiter = "RecruiterA"
                             /\ row.Onsites = 1
                             /\ "Screens" \in DOMAIN row /\ row.Screens = 1
                             /\ row.Conversion = 1000

\* C18: in every week row of get_weekly_source_breakdown the categories add
\* up to the Total: Applied + Sourced + Referred + Unknown = Total.
C18_CategoriesAddUpToTotal ==
    computed.fn = "metrics.get_weekly_source_breakdown"
        => \A row \in computed.value :
               LET unknown == IF "Unknown" \in DOMAIN row THEN row.Unknown ELSE 0
               IN  row.Applied + row.Sourced + row.Referred + unknown = row.Total

\* The onsite events of the candidate of event i, all of them and those at
\* or after the event.
OnsitesOf(i) ==
    {j \in OnsiteEvents : Dataset[j]["Candidate Name"] = Dataset[i]["Candidate Name"]}
OnsitesFrom(i) == {j \in OnsitesOf(i) : Instant(j) >= Instant(i)}

\* The seconds from event i to the earliest onsite at or after it.
SecondsToOnsite(i) ==
    (CHOOSE t \in {Instant(j) : j \in OnsitesFrom(i)} :
        \A j \in OnsitesFrom(i) : t <= Instant(j)) - Instant(i)

RECURSIVE SumSecondsToOnsite(_)
SumSecondsToOnsite(screens) ==
    IF screens = {} THEN 0
    ELSE LET i == CHOOSE j \in screens : TRUE
         IN  SecondsToOnsite(i) + SumSecondsToOnsite(screens \ {i})

\* C19: every row of the time-to-hire computation pairs a screen with the
\* earliest onsite of its candidate at or after the screen: the days are
\* never negative and do not depend on the order of the rows.
C19_EarliestOnsiteAfterScreen ==
    /\ computed.fn = "app.get_time_to_hire_metrics"
           => LET screens == Select(Dataset, {i \in ScreenEvents : OnsitesOf(i) # {}}, 1)
              IN  /\ Len(computed.value) = Len(screens)
                  /\ \A k \in 1..Len(screens) :
                         /\ OnsitesFrom(screens[k]) # {}
                         /\ computed.value[k].TimeToOnsite >= 0
                         /\ computed.value[k].TimeToOnsite
                                = SecondsToOnsite(screens[k]) \div (24 * 60 * 60)
    /\ computed.fn = "metrics.get_time_to_hire_metrics"
           => LET screens == {i \in ScreenEvents : OnsitesFrom(i) # {}}
              IN  /\ computed.value.terms = Cardinality(screens)
                  /\ computed.value.seconds = SumSecondsToOnsite(screens)

\* The dataset without its row i.
Without(df, i) == SubSeq(df, 1, i - 1) \o SubSeq(df, i + 1, Len(df))

\* C20: a recruiter screen whose candidate has no onsite event contributes
\* nothing to the time-to-hire output, no row and no term: the output is
\* the output for the dataset without that screen.
C20_ScreenWithoutOnsiteCountsForNothing ==
    /\ computed.fn = "app.get_time_to_hire_metrics"
           => /\ Len(computed.value)
                     = Cardinality({i \in ScreenEvents : OnsitesOf(i) # {}})
              /\ \A i \in ScreenEvents :
                     OnsitesOf(i) = {}
                         => computed.value
                                = app_get_time_to_hire_metrics(Without(Dataset, i))
    /\ computed.fn = "metrics.get_time_to_hire_metrics"
           => \A i \in ScreenEvents :
                  OnsitesOf(i) = {}
                      => computed.value = get_time_to_hire_metrics(Without(Dataset, i))

\* The time to hire of a dataset holding a screen followed by an onsite and
\* the screen of a candidate without onsite.
C20_Witness ==
    /\ computed.fn = "app.get_time_to_hire_metrics"
    /\ Len(computed.value) >= 1
    /\ \E i \in ScreenEvents : OnsitesOf(i) = {}

\* The Total Screens of a recruiter summed over all the weeks of a table.
TotalOf(metrics_df, r) ==
    sum_total_screens(SelectSeq(metrics_df, LAMBDA row : row.Recruiter = r))

\* C21: get_star_recruiter returns None on an empty table and otherwise a
\* recruiter of the table whose Total Screens, summed over all the weeks of
\* the table, is the greatest of all recruiters, also when another recruiter
\* has the greatest single row.
C21_StarHasGreatestSum ==
    computed.fn \in {"metrics.get_star_recruiter", "app.get_star_recruiter"}
        => LET metrics_df == computed.value.metrics_df
               star == computed.value.star
           IN  IF metrics_df = <<>> THEN star = <<>>
               ELSE /\ star # <<>>
                    /\ \E i \in 1..Len(metrics_df) : metrics_df[i].Recruiter = star[1]
                    /\ \A i \in 1..Len(metrics_df) :
                           TotalOf(metrics_df, metrics_df[i].Recruiter)
                               <= TotalOf(metrics_df, star[1])

\* The required columns a frame carries under either of their names.
PresentColumns(df) ==
    {col \in Range(required_columns) :
        df.is_frame /\ (col \in df.columns \/ DisplayToDb[col] \in df.columns)}

\* C24: validate_metrics_data returns (True, None) exactly when the six
\* required columns are present, under their display or their database
\* names, and there is a row; with columns missing it returns a failure that
\* names exactly those columns; with all columns and no row it returns the
\* 'No data available' failure.  It returns on every input.
C24_ValidateMetricsData ==
    computed.fn = "metrics.validate_metrics_data"
        => LET df == computed.value.df
               returned == computed.value.returned
               missing == Range(required_columns) \ PresentColumns(df)
           IN  /\ last.outcome = "ok"
               /\ returned.ok <=> (df.is_frame /\ missing = {} /\ df.rows >= 1)
               /\ returned.ok => returned.message = <<>>
               /\ (df.is_frame /\ missing # {})
                      => /\ returned.message[1] = "Missing required columns"
                         /\ Range(returned.message[2]) = missing
                         /\ Len(returned.message[2]) = Cardinality(missing)
               /\ (df.is_frame /\ missing = {} /\ df.rows = 0)
                      => returned.message[1] = "No data available for metrics calculation"

\* A frame with rows that carries a required column under its database name
\* only, and is accepted.
C24_Witness ==
    /\ computed.fn = "metrics.validate_metrics_data"
    /\ computed.value.returned.ok
    /\ "interviewer" \in computed.value.df.columns
    /\ "Interviewer" \notin computed.value.df.columns

\* The rows whose form says recruiter screen, of one interviewer, in the
\* weeks get_quality_metrics selects.
QualityScreens(r) ==
    {i \in Indices(Dataset) :
        /\ contains_recruiter_screen(Dataset[i]["Feedback Form"])
        /\ Dataset[i]["Interviewer"] = r
        /\ Week(Dataset, i) \in Range(latest_weeks(all_weeks(Dataset),
                                                   computed.weeks_to_show))}

\* C22: get_quality_metrics reports, for each recruiter with a recruiter
\* screen in the selected weeks, one value: the share of those screens whose
\* Overall Score is 4 or more, as a percentage rounded to one decimal (kept
\* in tenths), between 0 and 100; a screen without a score counts among the
\* screens and not among the scores of 4 or more.
C22_QualityIsShareOfScoresAtLeast4 ==
    computed.fn = "app.get_quality_metrics"
        => LET Recruiters == {Dataset[i]["Interviewer"] : i \in Indices(Dataset)}
                                 \ onsite_interviewers
               high(r) == {i \in QualityScreens(r) :
                              \E v \in 4..5 : Dataset[i]["Overall Score"] = <<v>>}
           IN  /\ \A r \in Recruiters :
                      QualityScreens(r) # {}
                          <=> \E row \in computed.value : row.Interviewer = r
               /\ \A row \in computed.value :
                      row.Interviewer \in Recruiters
                          => /\ 10 * Cardinality(QualityScreens(row.Interviewer))
                                    * row.OverallScore
                                  - 10000 * Cardinality(high(row.Interviewer))
                                    \in -5 * Cardinality(QualityScreens(row.Interviewer))
                                         ..5 * Cardinality(QualityScreens(row.Interviewer))
                             /\ row.OverallScore \in 0..1000
                             /\ \A other \in computed.value :
                                    other.Interviewer = row.Interviewer => other = row

\* A recruiter with a screen scored 4 and a screen without a score in the
\* selected weeks is reported with 50.0.
C22_Witness ==
    /\ computed.fn = "app.get_quality_metrics"
    /\ \E row \in computed.value :
           /\ row.Interviewer \notin onsite_interviewers
           /\ row.OverallScore = 500
           /\ \E i \in QualityScreens(row.Interviewer) : Dataset[i]["Overall Score"] = <<>>
           /\ \E i \in QualityScreens(row.Interviewer) : Dataset[i]["Overall Score"] = <<4>>

\* The week of the one-week window of the screen aggregator, and of the
\* onsite and the conversion aggregators, whose window is over all the rows.
CurrentScreenWeek == {row.Week : row \in app_get_recruiter_screen_metrics(Dataset, 1)}
CurrentWeek == Range(latest_weeks(all_weeks(Dataset), 1))

\* C23: in a dashboard run every previous-week value is taken from the rows
\* its aggregator returns for a window of two weeks, without exactly the rows
\* of the week of that aggregator's own one-week window; no row of the
\* current week is among them.
C23_PreviousWeekLeavesOutCurrentWeek ==
    (last.op = "dashboard" /\ last.outcome = "ok")
        => /\ computed.value.prev_week_metrics =
                  {row \in app_get_recruiter_screen_metrics(Dataset, 2) :
                      row.Week \notin CurrentScreenWeek}
           /\ computed.value.prev_week_onsites =
                  {row \in app_get_onsite_interview_metrics(Dataset, 2) :
                      row.Week \notin CurrentWeek}
           /\ computed.value.prev_week_conversion =
                  {row \in app_get_onsite_conversion_metrics(Dataset, 2) :
                      row.Week \notin CurrentWeek}
           /\ \A rec \in computed.value.recruiters :
                  /\ rec.prev_data =
                         {row \in app_get_recruiter_screen_metrics(Dataset, 2) :
                             row.Week \notin CurrentScreenWeek /\ row.Recruiter = rec.Recruiter}
                  /\ rec.prev_onsite =
                         {row \in app_get_onsite_conversion_metrics(Dataset, 2) :
                             row.Week \notin CurrentWeek /\ row.Recruiter = rec.Recruiter}

\* C26: a dashboard run over a table that has rows ends without an unhandled
\* exception, also when no row of the table is a recruiter screen.
C26_DashboardRunCompletes ==
    last.op = "dashboard" => last.outcome = "ok"

\* C30: get_latest_week_data returns exactly the rows of the Monday-to-Sunday
\* week of the latest row, in their order, among them a row of that week's
\* Monday at an earlier time of day than the latest row.
C30_LatestWeekIsWholeIsoWeek ==
    computed.fn = "metrics.get_latest_week_data"
        => LET latest == Max({Instant(i) : i \in Indices(Dataset)})
               kept == Select(Dataset, {i \in Indices(Dataset) :
                                           SameIsoWeek(Instant(i), latest)}, 1)
           IN  computed.value = [k \in 1..Len(kept) |-> Dataset[kept[k]]]

\* C28: when rows are persisted already, an upload that ends well persists
\* every row of its batch whose natural key is absent from the persisted
\* rows, whatever the row's timestamp.
C28_UploadPersistsEveryAbsentKey ==
    (last.op = "upload" /\ last.outcome = "ok" /\ last.count_before > 0)
        => \A r \in Range(to_records(read_csv(last.batch))) :
               NaturalKey(r) \notin NaturalKeys(TableBefore)
                   => NaturalKey(r) \in NaturalKeys(recruitment_data)

\* C29: an upload during which the read of the persisted rows raises inserts
\* no row whose natural key is persisted already.
C29_FailedReadInsertsNoPersistedEvent ==
    (last.op = "upload" /\ last.fault.select)
        => \A i \in 1..Len(Appended) :
               NaturalKey(Appended[i]) \notin NaturalKeys(TableBefore)

\* The classification of the claim: an event is an onsite interview when its
\* interviewer is an onsite interviewer, and a recruiter screen when its form
\* says recruiter screen and its interviewer is no onsite interviewer.
OnsiteInterviews == {i \in Indices(Dataset) : Dataset[i]["Interviewer"] \in onsite_interviewers}
RecruiterScreenEvents ==
    {i \in Indices(Dataset) :
        /\ contains_recruiter_screen(Dataset[i]["Feedback Form"])
        /\ Dataset[i]["Interviewer"] \notin onsite_interviewers}

\* C27: every aggregator classifies the events in that one way, so none
\* counts an event of an onsite interviewer as a recruiter screen, and none
\* leaves an event of an onsite interviewer out of the onsite interviews: the
\* source breakdown counts no more screens in a week than there are recruiter
\* screens in it, time-to-hire and quality report no onsite interviewer as a
\* recruiter, time-to-hire pairs recruiter screens with onsite interviews
\* only, and the onsite volume has a row for every onsite interview of its
\* weeks.
C27_OneClassificationForAllAggregators ==
    /\ computed.fn = "metrics.get_weekly_source_breakdown"
           => \A row \in computed.value :
                  row.Total <= Cardinality({i \in RecruiterScreenEvents :
                                   breakdown_week_key(Instant(i)) = row.Week})
    /\ computed.fn = "app.get_time_to_hire_metrics"
           => \A k \in 1..Len(computed.value) :
                  computed.value[k].Recruiter \notin onsite_interviewers
    /\ computed.fn = "metrics.get_time_to_hire_metrics"
           => computed.value.terms =
                  Cardinality({p \in RecruiterScreenEvents \X OnsiteInterviews :
                                  Dataset[p[1]]["Candidate Name"]
                                      = Dataset[p[2]]["Candidate Name"]})
    /\ computed.fn = "app.get_quality_metrics"
           => \A row \in computed.value : row.Interviewer \notin onsite_interviewers
    /\ computed.fn \in {"app.get_onsite_conversion_metrics",
                        "metrics.get_onsite_conversion_metrics"}
           => \A row \in computed.value : row.Recruiter \notin onsite_interviewers
    /\ computed.fn \in {"app.get_onsite_interview_metrics",
                        "metrics.get_onsite_interview_metrics"}
           => \A i \in OnsiteInterviews :
                  Week(Dataset, i) \in Range(latest_weeks(all_weeks(Dataset),
                                                          computed.weeks_to_show))
                      => \E row \in computed.value :
                             /\ row.Week = Week(Dataset, i)
                             /\ row.Interviewer = Dataset[i]["Interviewer"]

\* The rows the last operation appended, as load_from_db returns them.
LoadedAppended ==
    SubSeq(load_from_db(NoFault), last.count_before + 1, Len(recruitment_data))

\* C25: the renaming of save_to_db and the renaming of load_from_db are
\* bijections over the eight fields and each other's inverse, and the rows an
\* ingest saved are loaded back under the same eight names with the same
\* values: every loaded row is a row of the batch as it was read.
C25_SaveThenLoadReturnsTheEvent ==
    /\ Cardinality(CsvColumns) = 8
    /\ Cardinality(DbColumns) = 8
    /\ \A c \in CsvColumns : DbToDisplay[DisplayToDb[c]] = c
    /\ \A d \in DbColumns : DisplayToDb[DbToDisplay[d]] = d
    /\ (last.op \in {"upload", "database.save_to_db"} /\ last.outcome = "ok")
           => \A i \in 1..Len(LoadedAppended) :
                  /\ DOMAIN LoadedAppended[i] = CsvColumns
                  /\ LoadedAppended[i] \in Range(read_csv(last.batch))

\* An upload saved a row that has a score, and the row is loaded back.
C25_Witness ==
    /\ last.op = "upload" /\ last.outcome = "ok"
    /\ Len(LoadedAppended) > 0
    /\ LoadedAppended[1]["Overall Score"] # <<>>
    /\ LoadedAppended[1] = read_csv(last.batch)[1]

====
